---- MODULE Spec2Model ----
(***************************************************************************)
(* Donation transfer core of backend-test-fastamoni.                       *)
(*                                                                         *)
(* The model follows one HTTP donation request per process through         *)
(* createDonationEndpoint (controllers/donationController.js) and          *)
(* createDonation (services/donationService.js), statement by statement at *)
(* every await, against a PostgreSQL store running the interactive         *)
(* transaction at READ COMMITTED: row locks on Wallet rows taken by        *)
(* UPDATE and held until commit or rollback, unique indexes that make a    *)
(* second inserter wait for the first one's commit, sequences that are not *)
(* rolled back.  Wallet top-ups and the deferred thank-you check run       *)
(* beside the requests.                                                    *)
(***************************************************************************)
EXTENDS Integers, FiniteSets, Sequences, TLC

\* ---------------------------------------------------------------- bounds
\* registered users, requests served, distinct Idempotency-Key values,
\* largest amount of a request or a top-up, total money ever topped up
NumUsers == 2
NumProcs == 2
NumKeys == 2
MaxAmount == 2
MaxFunds == 2
\* donations the first user has made before the requests of System
MaxPrior == 2
\* times a caller sends a request again after a transient failure
MaxRetries == 1

Users == 1..NumUsers
Procs == 1..NumProcs
\* a receiverId that names no User row
GhostUser == NumUsers + 1
ReceiverIds == Users \cup {GhostUser}
\* 0 stands for a request without Idempotency-Key header
NoKey == 0
Keys == 1..NumKeys
\* the keys of the requests served before the ones modelled
PriorKeys == (NumKeys + 1)..(NumKeys + MaxPrior)
\* the amount of the request body: negative, zero (falsy) or positive
Amounts == (-1)..MaxAmount
\* the pin of the request body; every user created the PIN GoodPin
GoodPin == "123456"
BadPin == "654321"
Pins == {GoodPin, BadPin}

\* ------------------------------------------------------------ the store
VARIABLES
  user,            \* ids of the committed User rows
  wallet,          \* Wallet.balance by userId (committed rows)
  donation,        \* committed Donation rows
  transaction,     \* committed Transaction rows
  idempotencyKey,  \* committed IdempotencyKey rows
  transactionPin,  \* TransactionPin.pinHash by userId
  donationSeq,     \* last value of the Donation id sequence
  transactionSeq,  \* last value of the Transaction id sequence
  toppedUp,        \* sum of the audited top-ups by userId
  req,             \* the request each process is serving, and where it is
  res,             \* the HTTP response each process has sent
  scheduled,       \* setImmediate callbacks not yet run, by sender
  emails,          \* sendThankYouEmail calls made, by sender
  mail,            \* thank-you tasks by recipient and next attempt
  console          \* lines the background tasks have logged, by kind

store == <<wallet, donation, transaction, idempotencyKey>>
vars == <<user, wallet, donation, transaction, idempotencyKey, transactionPin,
          donationSeq, transactionSeq, toppedUp, req, res, scheduled, emails,
          mail, console>>

\* bcrypt.hash / bcrypt.compare
hashPassword(pin) == <<"bcrypt", pin>>

\* a comparison that accepts every pin
verifyPasswordAny(pin, pinHash) == TRUE

verifyPassword(pin, pinHash) == pinHash = hashPassword(pin)

NoPin == <<>>
\* the loop of sendThankYouEmail: for (attempt = 1; attempt <= 3; attempt++)
MaxAttempts == 3
\* no thank-you task in flight: none is about to make attempt 1, 2 or 3
NoMail == [attempt \in 1..MaxAttempts |-> 0]
\* nothing logged yet
NoLines == [countError |-> 0, queued |-> 0, skipped |-> 0, error |-> 0,
            sent |-> 0, attemptFailed |-> 0, gaveUp |-> 0]
\* a response body without data
NoData == [id |-> 0]
NoRes == [status |-> 0, message |-> "", data |-> NoData]
\* the locals of a handler that is not running
NoReq == [pc |-> "idle", userId |-> 0, receiverId |-> 0, amount |-> 0,
          pin |-> "", newPin |-> "", key |-> NoKey, balance |-> 0,
          donationId |-> 0, transactionId |-> 0, startDate |-> 0,
          endDate |-> 0, page |-> 0, limit |-> 0, attempt |-> 0,
          authorization |-> "", secret |-> "", incoming |-> ""]

\* a lookup on the wrong column, which finds nothing
findIdempotencyKeyMiss(k) == {i \in idempotencyKey : i.transactionId = 0}

\* prisma.idempotencyKey.findUnique({where: {key}})
findIdempotencyKey(k) == {i \in idempotencyKey : i.key = k}

\* prisma.transaction.findUnique({where: {id}, include: {donation: true}})
findTransaction(id) ==
  LET t == CHOOSE t \in transaction : t.id = id
      d == CHOOSE d \in donation : d.id = t.donationId
  IN  [id |-> t.id, donationId |-> t.donationId, amount |-> t.amount,
       type |-> t.type, status |-> t.status,
       idempotencyKey |-> t.idempotencyKey, donation |-> d]

\* the record the idempotency guard returns for a key that is recorded
existingTransaction(k) ==
  findTransaction((CHOOSE i \in idempotencyKey : i.key = k).transactionId)

\* a count without its where clause
getDonationCountAll(u) == Cardinality(donation)

\* a count of the donations received
getDonationCountReceived(u) == Cardinality({d \in donation : d.receiverId = u})

\* prisma.donation.count({where: {senderId}})
getDonationCount(u) == Cardinality({d \in donation : d.senderId = u})

\* a threshold one too high
milestoneThird(donationCount) == donationCount >= 3

\* if (donationCount >= 2)
milestone(donationCount) == donationCount >= 2

\* the catch block of createDonationEndpoint
ClientErrors == {"sender or receiver does not exist",
                 "Cannot donate to yourself",
                 "Insufficient funds in wallet"}
\* a catch block that sends every error's message
errorResponseVerbatim(message) ==
  IF message \in ClientErrors
  THEN [status |-> 400, message |-> message, data |-> NoData]
  ELSE [status |-> 500, message |-> message, data |-> NoData]

errorResponse(message) ==
  IF message \in ClientErrors
  THEN [status |-> 400, message |-> message, data |-> NoData]
  ELSE [status |-> 500, message |-> "Internal: Unable to process donation",
        data |-> NoData]
successResponse(data) ==
  [status |-> 201, message |-> "Donation successful", data |-> data]

\* the comparison with its operands exchanged
insufficientFundsSwapped(balance, amount) == amount < balance

\* new Decimal(senderWallet.balance).lt(decimalAmount)
insufficientFunds(balance, amount) == balance < amount

\* the indexes created without UNIQUE
uniqueViolationNever(committed, value) == FALSE

\* CREATE UNIQUE INDEX: inserting value fails when a committed row has it
uniqueViolation(committed, value) == value \in committed

\* ------------------------------------------------- transaction footprint
\* Wallet rows whose row lock the open transaction of p holds
locksHeld(p) ==
  CASE req[p].pc = "credit" -> {req[p].userId}
    [] req[p].pc \in {"donation", "transaction", "key", "commit"} ->
         {req[p].userId, req[p].receiverId}
    [] OTHER -> {}
walletLocked(u) == \E p \in Procs : u \in locksHeld(p)

\* uncommitted Transaction / IdempotencyKey index entries of open transactions
pendingTransactionKey(p) ==
  IF req[p].pc \in {"key", "commit"} THEN {req[p].key} ELSE {}
pendingIdempotencyKey(p) ==
  IF req[p].pc = "commit" THEN {req[p].key} ELSE {}

inTransaction(p) ==
  req[p].pc \in {"credit", "donation", "transaction", "key", "commit"}

\* the wallet updates issued on the client instead of the transaction: those
\* already made outlive the rollback
abortTransactionKeepingWallets(p) ==
  /\ wallet' =
       [u \in Users |->
          wallet[u]
          - (IF u = req[p].userId /\ inTransaction(p)
             THEN req[p].amount ELSE 0)
          + (IF u = req[p].receiverId /\ inTransaction(p)
                /\ req[p].pc # "credit"
             THEN req[p].amount ELSE 0)]
  /\ UNCHANGED <<donation, transaction, idempotencyKey>>

\* a failure handler that deletes the rows of the key of the failed request
abortTransactionDeletingKey(p) ==
  /\ transaction' = {t \in transaction : t.idempotencyKey # req[p].key}
  /\ idempotencyKey' = {i \in idempotencyKey : i.key # req[p].key}
  /\ UNCHANGED <<wallet, donation>>

\* $transaction rejects: nothing the transaction wrote becomes visible
abortTransaction(p) == UNCHANGED store

\* the handler sends its response and returns; its locals are gone (the
\* count of the caller's retries is the caller's)
finish(p, response) ==
  /\ req' = [req EXCEPT ![p] = [NoReq EXCEPT !.pc = "done",
                                             !.attempt = req[p].attempt]]
  /\ res' = [res EXCEPT ![p] = response]

\* where a handler can be between two awaits
Pcs == {"idle", "pin", "lookup", "fetch", "debit", "credit", "donation",
        "transaction", "key", "commit", "P2002", "done",
        "userCreate", "pinUpsert", "pinFind", "pinUpdate", "count", "single", "range",
        "wallet", "auth", "topUp"}

\* the shape of the state: the tables of the schema, the sequences, the
\* handlers' locals, the responses and the deferred callbacks
TypeOK ==
  /\ user \subseteq ReceiverIds
  /\ DOMAIN wallet \subseteq ReceiverIds
  /\ \A u \in DOMAIN wallet : wallet[u] \in Int
  /\ \A d \in donation :
        /\ DOMAIN d = {"id", "senderId", "receiverId", "amount"}
        /\ d.id \in 1..donationSeq
        /\ d.senderId \in user /\ d.receiverId \in user
        /\ d.amount \in Int
  /\ \A t \in transaction :
        /\ DOMAIN t = {"id", "donationId", "amount", "type", "status",
                       "idempotencyKey"}
        /\ t.id \in 1..transactionSeq
        /\ t.idempotencyKey \in Keys \cup PriorKeys
  /\ \A i \in idempotencyKey :
        /\ DOMAIN i = {"key", "transactionId"}
        /\ i.key \in Keys \cup PriorKeys
  /\ \A u \in DOMAIN transactionPin :
        transactionPin[u] \in {NoPin} \cup {hashPassword(pin) : pin \in Pins}
  /\ donationSeq \in Nat /\ transactionSeq \in Nat
  /\ toppedUp \in [Users -> Nat]
  /\ \A p \in Procs :
        /\ req[p].pc \in Pcs
        /\ req[p].key \in Keys \cup {NoKey}
        /\ res[p].status \in {0, 200, 201, 400, 401, 403, 404, 409, 500}
  /\ mail \in [Users -> [1..MaxAttempts -> Nat]]
  /\ \A kind \in DOMAIN console : console[kind] \in Nat
  /\ scheduled \in [Users -> Nat]
  /\ emails \in [Users -> Nat]

Init ==
  /\ user = Users
  /\ wallet = [u \in Users |-> 0]
  /\ donation = {}
  /\ transaction = {}
  /\ idempotencyKey = {}
  /\ transactionPin =
       [u \in ReceiverIds |-> IF u \in Users THEN hashPassword(GoodPin)
                                            ELSE NoPin]
  /\ donationSeq = 0
  /\ transactionSeq = 0
  /\ toppedUp = [u \in Users |-> 0]
  /\ req = [p \in Procs |-> NoReq]
  /\ res = [p \in Procs |-> NoRes]
  /\ scheduled = [u \in Users |-> 0]
  /\ emails = [u \in Users |-> 0]
  /\ mail = [u \in Users |-> NoMail]
  /\ console = NoLines

\* ------------------------------------------------ createDonationEndpoint
\* The synchronous head of the handler, up to the first await.
createDonationEndpoint(p) ==
  /\ req[p].pc = "idle"
  \* processes are interchangeable: they take their requests in order
  /\ \A q \in Procs : q < p => req[q].pc # "idle"
  /\ \E userId \in user, receiverId \in ReceiverIds, amount \in Amounts,
        pin \in Pins, key \in Keys \cup {NoKey} :
       LET r == [NoReq EXCEPT !.userId = userId, !.receiverId = receiverId,
                              !.amount = amount, !.pin = pin, !.key = key]
       IN  IF key = NoKey
           THEN /\ req' = [req EXCEPT ![p] = [NoReq EXCEPT !.pc = "done"]]
                /\ res' = [res EXCEPT ![p] =
                     [status |-> 400,
                      message |-> "Idempotency-Key header is required",
                      data |-> NoData]]
           ELSE IF amount = 0
           THEN /\ req' = [req EXCEPT ![p] = [NoReq EXCEPT !.pc = "done"]]
                /\ res' = [res EXCEPT ![p] =
                     [status |-> 400, message |-> "All fields are required.",
                      data |-> NoData]]
           ELSE IF amount <= 0
           THEN /\ req' = [req EXCEPT ![p] = [NoReq EXCEPT !.pc = "done"]]
                /\ res' = [res EXCEPT ![p] =
                     [status |-> 400,
                      message |-> "Amount must be greater than zero.",
                      data |-> NoData]]
           ELSE /\ req' = [req EXCEPT ![p] = [r EXCEPT !.pc = "pin"]]
                /\ res' = res
  /\ UNCHANGED <<store, user, transactionPin, donationSeq, transactionSeq, toppedUp,
                 scheduled, emails, mail, console>>

\* transactionPin.findUnique and verifyPassword
verifyPin(p) ==
  /\ req[p].pc = "pin"
  /\ IF transactionPin[req[p].userId] = NoPin
     THEN finish(p, [status |-> 403, message |-> "Transaction PIN not set.",
                     data |-> NoData])
     ELSE IF ~verifyPassword(req[p].pin, transactionPin[req[p].userId])
     THEN finish(p, [status |-> 403, message |-> "Invalid transaction PIN.",
                     data |-> NoData])
     ELSE /\ req' = [req EXCEPT ![p].pc = "lookup"]
          /\ res' = res
  /\ UNCHANGED <<store, user, transactionPin, donationSeq, transactionSeq, toppedUp,
                 scheduled, emails, mail, console>>

\* ------------------------------------------------------- createDonation
\* The idempotency lookup, and the two synchronous checks that follow it.
lookup(p) ==
  /\ req[p].pc = "lookup"
  /\ IF findIdempotencyKey(req[p].key) # {}
     THEN finish(p, successResponse(existingTransaction(req[p].key)))
     ELSE IF req[p].amount <= 0
     THEN finish(p, errorResponse("Donation amount must be greater than zero"))
     ELSE IF req[p].userId = req[p].receiverId
     THEN finish(p, errorResponse("Cannot donate to yourself"))
     ELSE /\ req' = [req EXCEPT ![p].pc = "fetch"]
          /\ res' = res
  /\ UNCHANGED <<store, user, transactionPin, donationSeq, transactionSeq, toppedUp,
                 scheduled, emails, mail, console>>

\* a batch fetch that does not look the receiver up
fetchAnyReceiver(p) ==
  /\ req[p].pc = "fetch"
  /\ IF req[p].userId \notin user
     THEN finish(p, errorResponse("sender or receiver does not exist"))
     ELSE IF req[p].userId \notin DOMAIN wallet
     THEN finish(p, errorResponse("Sender wallet not found"))
     ELSE IF insufficientFunds(wallet[req[p].userId], req[p].amount)
     THEN finish(p, errorResponse("Insufficient funds in wallet"))
     ELSE /\ req' = [req EXCEPT ![p].pc = "debit",
                                ![p].balance = wallet[req[p].userId]]
          /\ res' = res
  /\ UNCHANGED <<store, user, transactionPin, donationSeq, transactionSeq, toppedUp,
                 scheduled, emails, mail, console>>

\* The batch fetch of sender, receiver and sender wallet, and its checks.
fetch(p) ==
  /\ req[p].pc = "fetch"
  /\ IF req[p].userId \notin user \/ req[p].receiverId \notin user
     THEN finish(p, errorResponse("sender or receiver does not exist"))
     ELSE IF req[p].userId \notin DOMAIN wallet
     THEN finish(p, errorResponse("Sender wallet not found"))
     ELSE IF insufficientFunds(wallet[req[p].userId], req[p].amount)
     THEN finish(p, errorResponse("Insufficient funds in wallet"))
     ELSE /\ req' = [req EXCEPT ![p].pc = "debit",
                                ![p].balance = wallet[req[p].userId]]
          /\ res' = res
  /\ UNCHANGED <<store, user, transactionPin, donationSeq, transactionSeq, toppedUp,
                 scheduled, emails, mail, console>>

\* tx.wallet.update(sender, decrement): waits for the row lock, keeps it
debit(p) ==
  /\ req[p].pc = "debit"
  /\ ~walletLocked(req[p].userId)
  /\ req' = [req EXCEPT ![p].pc = "credit"]
  /\ UNCHANGED <<store, user, transactionPin, donationSeq, transactionSeq, toppedUp,
                 res, scheduled, emails, mail, console>>

\* tx.wallet.update(receiver, increment): waits for the row lock, keeps it
credit(p) ==
  /\ req[p].pc = "credit"
  /\ ~walletLocked(req[p].receiverId)
  /\ req' = [req EXCEPT ![p].pc = "donation"]
  /\ UNCHANGED <<store, user, transactionPin, donationSeq, transactionSeq, toppedUp,
                 res, scheduled, emails, mail, console>>

\* tx.donation.create: takes the next id of the sequence
createDonationRow(p) ==
  /\ req[p].pc = "donation"
  /\ donationSeq' = donationSeq + 1
  /\ req' = [req EXCEPT ![p].pc = "transaction",
                        ![p].donationId = donationSeq + 1]
  /\ UNCHANGED <<store, user, transactionPin, transactionSeq, toppedUp, res,
                 scheduled, emails, mail, console>>

\* tx.transaction.create: the unique index on idempotencyKey makes it wait
\* for an open transaction that inserted the same key, and fail with P2002
\* when a committed row carries it; the failure rolls the transaction back.
createTransactionRow(p) ==
  /\ req[p].pc = "transaction"
  /\ \A q \in Procs \ {p} : req[p].key \notin pendingTransactionKey(q)
  /\ transactionSeq' = transactionSeq + 1
  /\ IF uniqueViolation({t.idempotencyKey : t \in transaction}, req[p].key)
     THEN /\ req' = [req EXCEPT ![p].pc = "P2002"]
          /\ abortTransaction(p)
     ELSE /\ req' = [req EXCEPT ![p].pc = "key",
                                ![p].transactionId = transactionSeq + 1]
          /\ UNCHANGED store
  /\ UNCHANGED <<user, transactionPin, donationSeq, toppedUp, res, scheduled,
                 emails, mail, console>>

\* tx.idempotencyKey.create: same discipline on the unique index on key
createIdempotencyKeyRow(p) ==
  /\ req[p].pc = "key"
  /\ \A q \in Procs \ {p} : req[p].key \notin pendingIdempotencyKey(q)
  /\ IF uniqueViolation({i.key : i \in idempotencyKey}, req[p].key)
     THEN /\ req' = [req EXCEPT ![p].pc = "P2002"]
          /\ abortTransaction(p)
     ELSE /\ req' = [req EXCEPT ![p].pc = "commit"]
          /\ UNCHANGED store
  /\ UNCHANGED <<user, transactionPin, donationSeq, transactionSeq, toppedUp, res,
                 scheduled, emails, mail, console>>

\* the Transaction row written with the wrong status and without its link
newTransactionUnlinked(p) ==
  [id |-> req[p].transactionId, donationId |-> req[p].transactionId,
   amount |-> req[p].amount, type |-> "DONATION", status |-> "PENDING",
   idempotencyKey |-> req[p].key]

\* the IdempotencyKey row pointing at the donation id
newIdempotencyKeyOfDonation(p) ==
  [key |-> req[p].key, transactionId |-> req[p].donationId]

\* the sender's new balance computed from the balance read before the
\* transaction instead of decremented in place
walletAfterFromSnapshot(p) ==
  [wallet EXCEPT ![req[p].userId] = req[p].balance - req[p].amount,
                 ![req[p].receiverId] = @ + req[p].amount]

\* The rows the open transaction of p has written
newDonation(p) ==
  [id |-> req[p].donationId, senderId |-> req[p].userId,
   receiverId |-> req[p].receiverId, amount |-> req[p].amount]
newTransaction(p) ==
  [id |-> req[p].transactionId, donationId |-> req[p].donationId,
   amount |-> req[p].amount, type |-> "DONATION", status |-> "COMPLETED",
   idempotencyKey |-> req[p].key]
newIdempotencyKey(p) ==
  [key |-> req[p].key, transactionId |-> req[p].transactionId]

\* the Wallet rows after the two updates of the transaction of p
walletAfter(p) ==
  [wallet EXCEPT ![req[p].userId] = @ - req[p].amount,
                 ![req[p].receiverId] = @ + req[p].amount]

\* $transaction resolves: everything written becomes visible, the locks go,
\* the deferred check is scheduled and the record is returned.
commit(p) ==
  /\ req[p].pc = "commit"
  /\ wallet' = walletAfter(p)
  /\ donation' = donation \cup {newDonation(p)}
  /\ transaction' = transaction \cup {newTransaction(p)}
  /\ idempotencyKey' = idempotencyKey \cup {newIdempotencyKey(p)}
  /\ scheduled' = [scheduled EXCEPT ![req[p].userId] = @ + 1]
  /\ finish(p, successResponse(newTransaction(p)))
  /\ UNCHANGED <<user, transactionPin, donationSeq, transactionSeq, toppedUp, emails, mail, console>>

\* The transaction is rolled back by the store (maxWait / timeout exceeded,
\* or chosen as the victim of a lock cycle); the error is not P2002.
rollback(p) ==
  /\ req[p].pc = "debit" \/ inTransaction(p)
  /\ abortTransaction(p)
  /\ finish(p, errorResponse("Transaction API error"))
  /\ UNCHANGED <<user, transactionPin, donationSeq, transactionSeq, toppedUp,
                 scheduled, emails, mail, console>>

\* a race resolution that queues the deferred check as a first execution does
raceResolveNotifying(p) ==
  /\ req[p].pc = "P2002"
  /\ IF findIdempotencyKey(req[p].key) # {}
     THEN finish(p, successResponse(existingTransaction(req[p].key)))
     ELSE finish(p, errorResponse("Unique constraint failed"))
  /\ scheduled' = [scheduled EXCEPT ![req[p].userId] = @ + 1]
  /\ UNCHANGED <<store, user, transactionPin, donationSeq, transactionSeq, toppedUp,
                 emails, mail, console>>

\* catch (e) with e.code === "P2002": read the key again
raceResolve(p) ==
  /\ req[p].pc = "P2002"
  /\ IF findIdempotencyKey(req[p].key) # {}
     THEN finish(p, successResponse(existingTransaction(req[p].key)))
     ELSE finish(p, errorResponse("Unique constraint failed"))
  /\ UNCHANGED <<store, user, transactionPin, donationSeq, transactionSeq, toppedUp,
                 scheduled, emails, mail, console>>

\* the setImmediate callback of a committed donation
notifyCheck(u) ==
  /\ scheduled[u] > 0
  /\ scheduled' = [scheduled EXCEPT ![u] = @ - 1]
  /\ IF milestone(getDonationCount(u))
     THEN /\ emails' = [emails EXCEPT ![u] = @ + 1]
          /\ mail' = [mail EXCEPT ![u][1] = @ + 1]
     ELSE UNCHANGED <<emails, mail>>
  /\ UNCHANGED <<store, user, transactionPin, donationSeq, transactionSeq,
                 toppedUp, req, res, console>>

\* ------------------------------------------------------------ topUpWallet
RECURSIVE funds(_)
funds(S) ==
  IF S = {} THEN 0
  ELSE LET u == CHOOSE u \in S : TRUE IN toppedUp[u] + funds(S \ {u})

\* The secret and amount checks, then wallet.upsert with increment: one
\* statement, which waits for the row lock; the audit line sums in toppedUp.
topUpWallet(u) ==
  \E secretOk \in BOOLEAN, amount \in 0..MaxAmount :
    IF ~secretOk \/ amount <= 0
    THEN UNCHANGED vars
    ELSE /\ funds(Users) + amount <= MaxFunds
         /\ ~walletLocked(u)
         /\ wallet' = [wallet EXCEPT ![u] = @ + amount]
         /\ toppedUp' = [toppedUp EXCEPT ![u] = @ + amount]
         /\ UNCHANGED <<donation, transaction, idempotencyKey, user, transactionPin,
                        donationSeq, transactionSeq, req, res, scheduled,
                        emails, mail, console>>

\* ------------------------------------------------------ background tasks
\* the count awaited before the response: its failure reaches the caller
notifyCheckFailsUncaught(u) ==
  /\ scheduled[u] > 0
  /\ scheduled' = [scheduled EXCEPT ![u] = @ - 1]
  /\ console' = [console EXCEPT !.countError = @ + 1]
  /\ \E p \in Procs :
       /\ res[p].status = 201
       /\ res' = [res EXCEPT ![p] = errorResponse("count failed")]
  /\ UNCHANGED <<store, user, transactionPin, donationSeq, transactionSeq,
                 toppedUp, req, emails, mail>>

\* the setImmediate callback whose prisma.donation.count rejects: the catch
\* of the callback logs the error and the callback ends
notifyCheckFails(u) ==
  /\ scheduled[u] > 0
  /\ scheduled' = [scheduled EXCEPT ![u] = @ - 1]
  /\ console' = [console EXCEPT !.countError = @ + 1]
  /\ UNCHANGED <<store, user, transactionPin, donationSeq, transactionSeq,
                 toppedUp, req, res, emails, mail>>

\* what one step of a thank-you task logs
logged(outcome, attempt) ==
  CASE outcome = "queued" -> [console EXCEPT !.queued = @ + 1]
    [] outcome = "skipped" -> [console EXCEPT !.skipped = @ + 1]
    [] outcome = "error" -> [console EXCEPT !.error = @ + 1]
    [] outcome = "sent" -> [console EXCEPT !.sent = @ + 1]
    [] outcome = "failed" ->
         [console EXCEPT !.attemptFailed = @ + 1,
                         !.gaveUp = @ + (IF attempt = MaxAttempts THEN 1 ELSE 0)]

\* a retry loop that never gives up
sendThankYouEmailAgain(u) ==
  /\ \E attempt \in 1..MaxAttempts :
       /\ mail[u][attempt] > 0
       /\ \E outcome \in {"queued", "skipped", "error", "sent", "failed"} :
            /\ outcome \in {"queued", "skipped", "error"} => attempt = 1
            /\ LET m == mail[u]
                   left == [m EXCEPT ![attempt] = @ - 1]
               IN  mail' = [mail EXCEPT ![u] =
                              IF outcome = "failed" /\ attempt < MaxAttempts
                              THEN [left EXCEPT ![attempt + 1] = @ + 1]
                              ELSE IF outcome = "failed" THEN m
                              ELSE left]
            /\ console' = logged(outcome, attempt)
  /\ UNCHANGED <<store, user, transactionPin, donationSeq, transactionSeq,
                 toppedUp, req, res, scheduled, emails>>

\* The task sendThankYouEmail defers.  Its first step ends it when delivery
\* is a dry run, goes through the HTTP provider (sent, or an error the outer
\* catch logs) or has no transporter; otherwise each step is one
\* transporter.sendMail of the retry loop, which ends the task on success and
\* after the last attempt.
sendThankYouEmail(u) ==
  /\ \E attempt \in 1..MaxAttempts :
       /\ mail[u][attempt] > 0
       /\ \E outcome \in {"queued", "skipped", "error", "sent", "failed"} :
            /\ outcome \in {"queued", "skipped", "error"} => attempt = 1
            /\ LET m == mail[u]
                   left == [m EXCEPT ![attempt] = @ - 1]
               IN  mail' = [mail EXCEPT ![u] =
                              IF outcome = "failed" /\ attempt < MaxAttempts
                              THEN [left EXCEPT ![attempt + 1] = @ + 1]
                              ELSE left]
            /\ console' = logged(outcome, attempt)
  /\ UNCHANGED <<store, user, transactionPin, donationSeq, transactionSeq,
                 toppedUp, req, res, scheduled, emails>>

\* --------------------------------------------------- the other handlers
\* res.status(status).json({message, data})
json(status, message, data) ==
  [status |-> status, message |-> message, data |-> data]

\* a process that has served no request yet takes the next one
idle(p) ==
  /\ req[p].pc = "idle"
  /\ \A q \in Procs : q < p => req[q].pc # "idle"

\* a pin of the wrong length, and a missing one
ShortPin == "12345"
MissingPin == ""
\* /^\d{6}$/.test(pin)
sixDigits(pin) == pin \in Pins

\* a wallet created with a welcome balance
walletCreateFunded(userId) == userId :> 1

\* wallet: {create: {balance: 0}}
\* a user created without the nested wallet
walletCreateNone(userId) == [u \in {} |-> 0]

walletCreate(userId) == userId :> 0

\* register, up to user.findUnique({where: {email}}): the user of an email is
\* identified with the email
register(p) ==
  /\ idle(p)
  /\ \E complete \in BOOLEAN, email \in ReceiverIds :
       IF ~complete
       THEN finish(p, json(400, "All fields are required.", NoData))
       ELSE IF email \in user
       THEN finish(p, json(409, "User already exists, please sign in instead",
                           NoData))
       ELSE /\ req' = [req EXCEPT ![p] =
                         [NoReq EXCEPT !.pc = "userCreate", !.userId = email]]
            /\ res' = res
  /\ UNCHANGED <<store, user, transactionPin, donationSeq, transactionSeq,
                 toppedUp, scheduled, emails, mail, console>>

\* prisma.user.create with the nested wallet create: one statement, which
\* the unique index on email fails when the user has been created meanwhile
userCreate(p) ==
  /\ req[p].pc = "userCreate"
  /\ IF uniqueViolation(user, req[p].userId)
     THEN /\ finish(p, json(500, "Internal: Error Occurred during registration",
                            NoData))
          /\ UNCHANGED <<user, wallet>>
     ELSE /\ user' = user \cup {req[p].userId}
          /\ wallet' = wallet @@ walletCreate(req[p].userId)
          /\ finish(p, json(201, "User registered successfully",
                            [id |-> req[p].userId]))
  /\ UNCHANGED <<donation, transaction, idempotencyKey, transactionPin,
                 donationSeq, transactionSeq, toppedUp, scheduled, emails,
                 mail, console>>

\* createTransactionPin, up to transactionPin.findUnique
createTransactionPin(p) ==
  /\ idle(p)
  /\ \E userId \in user, pin \in Pins \cup {ShortPin, MissingPin} :
       IF ~sixDigits(pin)
       THEN finish(p, json(400, "Transaction PIN must be a 6-digit number.",
                           NoData))
       ELSE IF transactionPin[userId] # NoPin
       THEN finish(p, json(409, "PIN already exists. You can update it instead in your profile",
                           NoData))
       ELSE /\ req' = [req EXCEPT ![p] =
                         [NoReq EXCEPT !.pc = "pinUpsert", !.userId = userId,
                                       !.pin = pin]]
            /\ res' = res
  /\ UNCHANGED <<store, user, transactionPin, donationSeq, transactionSeq,
                 toppedUp, scheduled, emails, mail, console>>

\* transactionPin.upsert({where: {userId}, update: {pinHash}, create: ...})
pinUpsert(p) ==
  /\ req[p].pc = "pinUpsert"
  /\ transactionPin' =
       [transactionPin EXCEPT ![req[p].userId] = hashPassword(req[p].pin)]
  /\ finish(p, json(201, "Transaction PIN created successfully", NoData))
  /\ UNCHANGED <<store, user, donationSeq, transactionSeq, toppedUp, scheduled,
                 emails, mail, console>>

\* updateTransactionPin, up to transactionPin.findUnique: the checks of the
\* request body
updateTransactionPin(p) ==
  /\ idle(p)
  /\ \E userId \in user, oldPin \in Pins \cup {MissingPin},
        newPin \in Pins \cup {ShortPin, MissingPin} :
       IF oldPin = MissingPin \/ newPin = MissingPin
       THEN finish(p, json(400, "Old PIN and new PIN are required.", NoData))
       ELSE IF ~sixDigits(newPin)
       THEN finish(p, json(400, "New PIN must be a 6-digit number.", NoData))
       ELSE /\ req' = [req EXCEPT ![p] =
                         [NoReq EXCEPT !.pc = "pinFind", !.userId = userId,
                                       !.pin = oldPin, !.newPin = newPin]]
            /\ res' = res
  /\ UNCHANGED <<store, user, transactionPin, donationSeq, transactionSeq,
                 toppedUp, scheduled, emails, mail, console>>

\* an update that does not compare the old PIN
verifyOldPinSkipped(p) ==
  /\ req[p].pc = "pinFind"
  /\ IF transactionPin[req[p].userId] = NoPin
     THEN finish(p, json(404, "No existing PIN found.", NoData))
     ELSE /\ req' = [req EXCEPT ![p].pc = "pinUpdate"]
          /\ res' = res
  /\ UNCHANGED <<store, user, transactionPin, donationSeq, transactionSeq,
                 toppedUp, scheduled, emails, mail, console>>

\* transactionPin.findUnique and bcrypt.compare on the row it returned
verifyOldPin(p) ==
  /\ req[p].pc = "pinFind"
  /\ IF transactionPin[req[p].userId] = NoPin
     THEN finish(p, json(404, "No existing PIN found.", NoData))
     ELSE IF ~verifyPassword(req[p].pin, transactionPin[req[p].userId])
     THEN finish(p, json(401, "Old PIN is incorrect.", NoData))
     ELSE /\ req' = [req EXCEPT ![p].pc = "pinUpdate"]
          /\ res' = res
  /\ UNCHANGED <<store, user, transactionPin, donationSeq, transactionSeq,
                 toppedUp, scheduled, emails, mail, console>>

\* transactionPin.update({where: {userId}, data: {pinHash}})
pinUpdate(p) ==
  /\ req[p].pc = "pinUpdate"
  /\ transactionPin' =
       [transactionPin EXCEPT ![req[p].userId] = hashPassword(req[p].newPin)]
  /\ finish(p, json(200, "Transaction PIN updated successfully", NoData))
  /\ UNCHANGED <<store, user, donationSeq, transactionSeq, toppedUp, scheduled,
                 emails, mail, console>>

\* ---------------------------------------------------------- the queries
\* getDonationCountEndpoint: the caller is the user of the token
getDonationCountEndpoint(p) ==
  /\ idle(p)
  /\ \E userId \in user :
       req' = [req EXCEPT ![p] = [NoReq EXCEPT !.pc = "count",
                                               !.userId = userId]]
  /\ UNCHANGED <<store, user, transactionPin, donationSeq, transactionSeq,
                 toppedUp, res, scheduled, emails, mail, console>>

\* await getDonationCount(userId), then the 200 response, or the 500 of the
\* catch when the store fails
countRead(p) ==
  /\ req[p].pc = "count"
  /\ \E storeUp \in BOOLEAN :
       IF storeUp
       THEN finish(p, json(200, "Donation count retrieved successfully",
                           [count |-> getDonationCount(req[p].userId)]))
       ELSE finish(p, json(500, "Internal: Unable to retrieve donation count",
                           NoData))
  /\ UNCHANGED <<store, user, transactionPin, donationSeq, transactionSeq,
                 toppedUp, scheduled, emails, mail, console>>

\* the ids a caller may ask for: those the sequence can have given, and the
\* next one
DonationIds == 1..(MaxPrior + NumProcs + 1)

\* viewSingleDonation
viewSingleDonation(p) ==
  /\ idle(p)
  /\ \E userId \in user, donationId \in DonationIds :
       req' = [req EXCEPT ![p] = [NoReq EXCEPT !.pc = "single",
                                               !.userId = userId,
                                               !.donationId = donationId]]
  /\ UNCHANGED <<store, user, transactionPin, donationSeq, transactionSeq,
                 toppedUp, res, scheduled, emails, mail, console>>

\* prisma.donation.findUnique({where: {id}, include: {receiver, sender,
\* transaction}}): a user is known here by its id alone
findDonation(id) ==
  {[id |-> d.id, senderId |-> d.senderId, receiverId |-> d.receiverId,
    amount |-> d.amount,
    receiver |-> [id |-> d.receiverId],
    sender |-> [id |-> d.senderId],
    transaction |-> CHOOSE t \in transaction : t.donationId = d.id] :
     d \in {e \in donation : e.id = id}}

\* a fetch without the access check
getSingleDonationOpen(p) ==
  /\ req[p].pc = "single"
  /\ LET found == findDonation(req[p].donationId)
     IN  IF found = {}
         THEN finish(p, json(404, "Donation not found", NoData))
         ELSE finish(p, json(200, "Donation retrieved successfully",
                             CHOOSE d \in found : TRUE))
  /\ UNCHANGED <<store, user, transactionPin, donationSeq, transactionSeq,
                 toppedUp, scheduled, emails, mail, console>>

\* getSingleDonation and the responses of viewSingleDonation
getSingleDonation(p) ==
  /\ req[p].pc = "single"
  /\ LET found == findDonation(req[p].donationId)
     IN  IF found = {}
         THEN finish(p, json(404, "Donation not found", NoData))
         ELSE LET d == CHOOSE d \in found : TRUE
              IN  IF d.senderId # req[p].userId /\ d.receiverId # req[p].userId
                  THEN finish(p, json(403, "Access denied to this donation",
                                      NoData))
                  ELSE finish(p, json(200, "Donation retrieved successfully",
                                      d))
  /\ UNCHANGED <<store, user, transactionPin, donationSeq, transactionSeq,
                 toppedUp, scheduled, emails, mail, console>>

\* a query parameter that is absent, and one new Date() cannot parse
NoDate == 0
BadDate == -1
\* the instant a Donation row was created: instants are taken at the insert,
\* as the ids are, and are ordered as the ids
createdAt(d) == d.id
Dates == 1..(MaxPrior + NumProcs)

\* page and limit when the query string has none, and the values a caller
\* may send: a page before the first, a limit below 1 and one above MaxLimit
DefaultPage == 1
DefaultLimit == 10
MaxLimit == 100
Pages == {0, DefaultPage, 2}
Limits == {0 - 1, 0, 2, DefaultLimit, MaxLimit + 1}

\* getDonationsByPeriod for callers whose pages and limits are in the given
\* sets: parseInt(page) and parseInt(limit) are passed on as they are
getDonationsByPeriodOf(p, pages, limits) ==
  /\ idle(p)
  /\ \E userId \in user, startDate \in Dates \cup {NoDate, BadDate},
        endDate \in Dates \cup {NoDate}, page \in pages, limit \in limits :
       IF startDate = NoDate \/ endDate = NoDate
       THEN /\ finish(p, json(400, "Start date and end date are required.",
                              NoData))
       ELSE /\ req' = [req EXCEPT ![p] =
                         [NoReq EXCEPT !.pc = "range", !.userId = userId,
                                       !.startDate = startDate,
                                       !.endDate = endDate,
                                       !.page = page, !.limit = limit]]
            /\ res' = res
  /\ UNCHANGED <<store, user, transactionPin, donationSeq, transactionSeq,
                 toppedUp, scheduled, emails, mail, console>>

\* getDonationsByPeriod with any page and limit
getDonationsByPeriod(p) == getDonationsByPeriodOf(p, Pages, Limits)

\* where: {senderId: userId, createdAt: {gte: start, lte: end}}
where(userId, start, end) ==
  {d \in donation : /\ d.senderId = userId
                    /\ createdAt(d) >= start
                    /\ createdAt(d) <= end}

\* an order that puts the oldest first
RECURSIVE orderByAsc(_)
orderByAsc(rows) ==
  IF rows = {} THEN <<>>
  ELSE LET d == CHOOSE d \in rows :
                  \A e \in rows : createdAt(e) >= createdAt(d)
       IN  <<d>> \o orderByAsc(rows \ {d})

\* orderBy: {createdAt: "desc"}
RECURSIVE orderBy(_)
orderBy(rows) ==
  IF rows = {} THEN <<>>
  ELSE LET d == CHOOSE d \in rows :
                  \A e \in rows : createdAt(e) <= createdAt(d)
       IN  <<d>> \o orderBy(rows \ {d})

\* include: {receiver: {select: {id, name, email}}}: a user is known here by
\* its id alone
includeReceiver(list) ==
  [i \in 1..Len(list) |->
     [id |-> list[i].id, senderId |-> list[i].senderId,
      receiverId |-> list[i].receiverId, amount |-> list[i].amount,
      receiver |-> [id |-> list[i].receiverId]]]

reverse(list) == [i \in 1..Len(list) |-> list[Len(list) + 1 - i]]

min(a, b) == IF a < b THEN a ELSE b

\* skip and take of findMany: a take below 0 counts from the end of the list
\* (skip included) and keeps the order of the list
skipTake(list, skip, take) ==
  IF take >= 0
  THEN SubSeq(list, skip + 1, min(Len(list), skip + take))
  ELSE reverse(SubSeq(reverse(list), skip + 1,
                      min(Len(list), skip - take)))

\* Math.ceil(totalCount / limit) for a limit other than 0
ceil(totalCount, limit) ==
  IF limit > 0 THEN 0 - ((0 - totalCount) \div limit)
  ELSE 0 - (totalCount \div (0 - limit))

\* Infinity and NaN in a JSON body
null == "null"

\* getDonationsByDateRange and the responses of getDonationsByPeriod: findMany
\* rejects a skip below 0
getDonationsByDateRange(p) ==
  /\ req[p].pc = "range"
  /\ LET page == req[p].page
         limit == req[p].limit
         skip == (page - 1) * limit
         rows == where(req[p].userId, req[p].startDate, req[p].endDate)
     IN  IF req[p].startDate = BadDate \/ req[p].endDate = BadDate
         THEN finish(p, json(400, "Invalid date format", NoData))
         ELSE IF skip < 0
         THEN finish(p, json(500, "Internal: Unable to retrieve donations",
                             NoData))
         ELSE finish(p, json(200, "Donations retrieved successfully",
                             [data |-> includeReceiver(
                                         skipTake(orderBy(rows), skip, limit)),
                              page |-> page,
                              limit |-> limit,
                              total |-> Cardinality(rows),
                              pages |-> IF limit = 0 THEN null
                                        ELSE ceil(Cardinality(rows), limit)]))
  /\ UNCHANGED <<store, user, transactionPin, donationSeq, transactionSeq,
                 toppedUp, scheduled, emails, mail, console>>

\* ---------------------------------------------------------- authMiddleware
\* the Authorization header of a request that carries no valid token: absent,
\* of another scheme, or a Bearer token that jwt.verify rejects
NoHeader == ""
Basic == "Basic dXNlcjpwYXNz"
BearerInvalid == "Bearer invalid"
BadHeaders == {NoHeader, Basic, BearerInvalid}

\* authHeader.startsWith("Bearer ")
startsWithBearer(authHeader) == authHeader = BearerInvalid

\* a middleware that answers the refusals with 403
authMiddlewareForbidden(authHeader) ==
  IF authHeader = NoHeader \/ ~startsWithBearer(authHeader)
  THEN json(403, "Missing or invalid authorization token", NoData)
  ELSE json(403, "Unauthorized: Invalid or expired token", NoData)

\* authMiddleware for a header of BadHeaders: jwt.verify throws
authMiddleware(authHeader) ==
  IF authHeader = NoHeader \/ ~startsWithBearer(authHeader)
  THEN json(401, "Missing or invalid authorization token", NoData)
  ELSE json(401, "Unauthorized: Invalid or expired token", NoData)

\* a request for a wallet or donation route arrives without a valid token
\* (the handlers above are entered by the requests whose token verifies)
unauthenticated(p) ==
  /\ idle(p)
  /\ \E authHeader \in BadHeaders :
       req' = [req EXCEPT ![p] = [NoReq EXCEPT !.pc = "auth",
                                               !.authorization = authHeader]]
  /\ UNCHANGED <<store, user, transactionPin, donationSeq, transactionSeq,
                 toppedUp, res, scheduled, emails, mail, console>>

\* router.use(authMiddleware): the response is sent and next() is not called
unauthorized(p) ==
  /\ req[p].pc = "auth"
  /\ finish(p, authMiddleware(req[p].authorization))
  /\ UNCHANGED <<store, user, transactionPin, donationSeq, transactionSeq,
                 toppedUp, scheduled, emails, mail, console>>

\* -------------------------------------------------- topUpWallet, answered
\* process.env.TOPUP_SECRET and the x-topup-secret header: unset or missing,
\* the configured one, another one
NoSecret == ""
TopUpSecret == "topup-secret"
WrongSecret == "guess"

\* a check that compares the two and nothing else
topUpAllowedUnset(secret, incoming) == incoming = secret

\* !(!secret || incoming !== secret)
topUpAllowed(secret, incoming) == secret # NoSecret /\ incoming = secret

\* topUpWallet for a caller whose response is kept: the request
topUp(p) ==
  /\ idle(p)
  /\ \E userId \in user \cap Users, secret \in {NoSecret, TopUpSecret},
        incoming \in {NoSecret, TopUpSecret, WrongSecret},
        amount \in Amounts :
       req' = [req EXCEPT ![p] = [NoReq EXCEPT !.pc = "topUp",
                                               !.userId = userId,
                                               !.secret = secret,
                                               !.incoming = incoming,
                                               !.amount = amount]]
  /\ UNCHANGED <<store, user, transactionPin, donationSeq, transactionSeq,
                 toppedUp, res, scheduled, emails, mail, console>>

\* the checks of topUpWallet, then wallet.upsert with increment, which may
\* fail
walletUpsert(p) ==
  /\ req[p].pc = "topUp"
  /\ LET userId == req[p].userId
         amount == req[p].amount
     IN  IF ~topUpAllowed(req[p].secret, req[p].incoming)
         THEN /\ finish(p, json(403,
                     "Top-up endpoint not allowed. Missing or invalid secret.",
                     NoData))
              /\ UNCHANGED <<wallet, toppedUp>>
         ELSE IF amount <= 0
         THEN /\ finish(p, json(400, "Amount must be less than zero.",
                                NoData))
              /\ UNCHANGED <<wallet, toppedUp>>
         ELSE \E storeUp \in BOOLEAN :
                IF ~storeUp
                THEN /\ finish(p, json(500, "Internal: Unable to top-up wallet",
                                       NoData))
                     /\ UNCHANGED <<wallet, toppedUp>>
                ELSE /\ funds(Users) + amount <= MaxFunds
                     /\ ~walletLocked(userId)
                     /\ wallet' = [wallet EXCEPT ![userId] = @ + amount]
                     /\ toppedUp' = [toppedUp EXCEPT ![userId] = @ + amount]
                     /\ finish(p, json(200, "Wallet topped up successfully",
                                       [userId |-> userId,
                                        balance |-> wallet[userId] + amount]))
  /\ UNCHANGED <<donation, transaction, idempotencyKey, user, transactionPin,
                 donationSeq, transactionSeq, scheduled, emails, mail,
                 console>>

\* getWallet
getWallet(p) ==
  /\ idle(p)
  /\ \E userId \in user :
       req' = [req EXCEPT ![p] = [NoReq EXCEPT !.pc = "wallet",
                                               !.userId = userId]]
  /\ UNCHANGED <<store, user, transactionPin, donationSeq, transactionSeq,
                 toppedUp, res, scheduled, emails, mail, console>>

\* prisma.wallet.findUnique({where: {userId}})
walletRead(p) ==
  /\ req[p].pc = "wallet"
  /\ IF req[p].userId \notin DOMAIN wallet
     THEN finish(p, json(404, "Wallet not found.", NoData))
     ELSE finish(p, json(200, "Wallet retrieved successfully",
                         [balance |-> wallet[req[p].userId]]))
  /\ UNCHANGED <<store, user, transactionPin, donationSeq, transactionSeq,
                 toppedUp, scheduled, emails, mail, console>>

Next ==
  \/ \E p \in Procs : createDonationEndpoint(p)
  \/ \E p \in Procs : verifyPin(p)
  \/ \E p \in Procs : lookup(p)
  \/ \E p \in Procs : fetch(p)
  \/ \E p \in Procs : debit(p)
  \/ \E p \in Procs : credit(p)
  \/ \E p \in Procs : createDonationRow(p)
  \/ \E p \in Procs : createTransactionRow(p)
  \/ \E p \in Procs : createIdempotencyKeyRow(p)
  \/ \E p \in Procs : commit(p)
  \/ \E p \in Procs : rollback(p)
  \/ \E p \in Procs : raceResolve(p)
  \/ \E u \in Users : notifyCheck(u)
  \/ \E u \in Users : topUpWallet(u)

Spec == Init /\ [][Next]_vars

\* ------------------------------------------------------------ the retry
\* The transaction of p is rolled back as in rollback(p); the caller gets the
\* opaque 500 and sends the same request, with the same Idempotency-Key,
\* again: it passed the synchronous checks before and is at its PIN check.
retry(p) ==
  /\ req[p].pc = "debit" \/ inTransaction(p)
  /\ req[p].attempt < MaxRetries
  /\ abortTransaction(p)
  /\ res' = [res EXCEPT ![p] = errorResponse("Transaction API error")]
  /\ req' = [req EXCEPT ![p] =
               [NoReq EXCEPT !.pc = "pin", !.userId = req[p].userId,
                             !.receiverId = req[p].receiverId,
                             !.amount = req[p].amount, !.pin = req[p].pin,
                             !.key = req[p].key,
                             !.attempt = req[p].attempt + 1]]
  /\ UNCHANGED <<user, transactionPin, donationSeq, transactionSeq, toppedUp,
                 scheduled, emails, mail, console>>

NextRetries ==
  \/ Next
  \/ \E p \in Procs : retry(p)

Retries == Init /\ [][NextRetries]_vars

\* ---------------------------------------------------- the whole service
\* The first user has given to the second before: up to MaxPrior donations
\* of 1, each with its Transaction and IdempotencyKey row, after topping up
\* one unit more than given.  Only the first user has created a PIN.
priorDonation(n) == [id |-> n, senderId |-> 1, receiverId |-> 2, amount |-> 1]
priorTransaction(n) ==
  [id |-> n, donationId |-> n, amount |-> 1, type |-> "DONATION",
   status |-> "COMPLETED", idempotencyKey |-> NumKeys + n]
priorIdempotencyKey(n) == [key |-> NumKeys + n, transactionId |-> n]

InitGiven(given) ==
  /\ user = Users
  /\ wallet = [u \in Users |->
                 IF given = 0 THEN 0
                 ELSE IF u = 1 THEN 1
                 ELSE IF u = 2 THEN given ELSE 0]
  /\ donation = {priorDonation(n) : n \in 1..given}
  /\ transaction = {priorTransaction(n) : n \in 1..given}
  /\ idempotencyKey = {priorIdempotencyKey(n) : n \in 1..given}
  /\ transactionPin =
       [u \in ReceiverIds |-> IF u = 1 THEN hashPassword(GoodPin) ELSE NoPin]
  /\ donationSeq = given
  /\ transactionSeq = given
  /\ toppedUp = [u \in Users |-> IF u = 1 /\ given > 0 THEN given + 1 ELSE 0]
  /\ req = [p \in Procs |-> NoReq]
  /\ res = [p \in Procs |-> NoRes]
  /\ scheduled = [u \in Users |-> 0]
  /\ emails = [u \in Users |-> 0]
  /\ mail = [u \in Users |-> NoMail]
  /\ console = NoLines

InitSystem == \E given \in 0..MaxPrior : InitGiven(given)

NextSystem ==
  \/ Next
  \/ \E u \in Users : notifyCheckFails(u)
  \/ \E u \in Users : sendThankYouEmail(u)
  \/ \E p \in Procs : register(p)
  \/ \E p \in Procs : userCreate(p)
  \/ \E p \in Procs : createTransactionPin(p)
  \/ \E p \in Procs : pinUpsert(p)
  \/ \E p \in Procs : updateTransactionPin(p)
  \/ \E p \in Procs : verifyOldPin(p)
  \/ \E p \in Procs : pinUpdate(p)
  \/ \E p \in Procs : getDonationCountEndpoint(p)
  \/ \E p \in Procs : countRead(p)
  \/ \E p \in Procs : viewSingleDonation(p)
  \/ \E p \in Procs : getSingleDonation(p)
  \/ \E p \in Procs :
        getDonationsByPeriodOf(p, {DefaultPage}, {DefaultLimit})
  \/ \E p \in Procs : getDonationsByDateRange(p)
  \/ \E p \in Procs : getWallet(p)
  \/ \E p \in Procs : walletRead(p)
  \/ \E p \in Procs : unauthenticated(p)
  \/ \E p \in Procs : unauthorized(p)
  \/ \E p \in Procs : topUp(p)
  \/ \E p \in Procs : walletUpsert(p)

System == InitSystem /\ [][NextSystem]_vars

\* ------------------------------------------------------------ the pages
\* Donations and range queries with every page and limit, after MaxPrior
\* donations of the first user (whose top-ups have reached MaxFunds).
NextPaging ==
  \/ \E p \in Procs : createDonationEndpoint(p)
  \/ \E p \in Procs : verifyPin(p)
  \/ \E p \in Procs : lookup(p)
  \/ \E p \in Procs : fetch(p)
  \/ \E p \in Procs : debit(p)
  \/ \E p \in Procs : credit(p)
  \/ \E p \in Procs : createDonationRow(p)
  \/ \E p \in Procs : createTransactionRow(p)
  \/ \E p \in Procs : createIdempotencyKeyRow(p)
  \/ \E p \in Procs : commit(p)
  \/ \E p \in Procs : rollback(p)
  \/ \E p \in Procs : raceResolve(p)
  \/ \E u \in Users : notifyCheck(u)
  \/ \E p \in Procs : getDonationsByPeriod(p)
  \/ \E p \in Procs : getDonationsByDateRange(p)

InitPaging == InitGiven(MaxPrior)

Paging == InitPaging /\ [][NextPaging]_vars

\* ------------------------------------------------------ a third caller
\* The transfer core when a third user has registered and created a PIN:
\* every id of ReceiverIds has a User row, an empty Wallet and a PIN.
InitBystander ==
  /\ user = ReceiverIds
  /\ wallet = [u \in ReceiverIds |-> 0]
  /\ donation = {}
  /\ transaction = {}
  /\ idempotencyKey = {}
  /\ transactionPin = [u \in ReceiverIds |-> hashPassword(GoodPin)]
  /\ donationSeq = 0
  /\ transactionSeq = 0
  /\ toppedUp = [u \in Users |-> 0]
  /\ req = [p \in Procs |-> NoReq]
  /\ res = [p \in Procs |-> NoRes]
  /\ scheduled = [u \in Users |-> 0]
  /\ emails = [u \in Users |-> 0]
  /\ mail = [u \in Users |-> NoMail]
  /\ console = NoLines

Bystander == InitBystander /\ [][Next]_vars

\* ================================================================ claims
RECURSIVE sumAmount(_)
sumAmount(rows) ==
  IF rows = {} THEN 0
  ELSE LET r == CHOOSE r \in rows : TRUE IN r.amount + sumAmount(rows \ {r})

RECURSIVE sumBalance(_)
sumBalance(S) ==
  IF S = {} THEN 0
  ELSE LET u == CHOOSE u \in S : TRUE IN wallet[u] + sumBalance(S \ {u})

recorded(k) == \E i \in idempotencyKey : i.key = k
running(p) == req[p].pc \notin {"idle", "done"}
stepOf(p) == req'[p] # req[p]
transactionsOf(k) == {t \in transaction : t.idempotencyKey = k}
donationsOf(k) ==
  {d \in donation : \E t \in transactionsOf(k) : t.donationId = d.id}
\* the units whose three rows are all committed
linked ==
  {x \in idempotencyKey \X transaction \X donation :
     x[1].transactionId = x[2].id /\ x[2].donationId = x[3].id}

\* C1: for every idempotency key at most one Donation, one Transfer Record and
\* one Idempotency Record are ever committed, under every interleaving of the
\* requests that carry it; and a step of a request changes wallets only when
\* its key is not yet recorded and the step records it, so at most one
\* debit/credit pair is applied per key.
C1_AtMostOncePerKey ==
  /\ [](\A k \in Keys :
          /\ Cardinality({i \in idempotencyKey : i.key = k}) <= 1
          /\ Cardinality(transactionsOf(k)) <= 1
          /\ Cardinality(donationsOf(k)) <= 1)
  /\ [][\A p \in Procs :
          (running(p) /\ stepOf(p) /\ wallet' # wallet) =>
             /\ ~recorded(req[p].key)
             /\ \E i \in idempotencyKey' : i.key = req[p].key]_vars

\* a duplicate that passed the lookup has hit the unique index of a key that
\* is committed
C1_Witness ==
  \E p \in Procs : req[p].pc = "P2002" /\ recorded(req[p].key)

\* C2: a request that passed the initial lookup while an identical request
\* (same sender, receiver, amount, key) went on to commit receives the
\* winner's Transfer Record and no error (store timeouts set aside).
C2_RaceConvergence ==
  [][\A q \in Procs :
       (/\ req[q].pc \in {"fetch", "debit", "credit", "donation",
                           "transaction", "key", "commit", "P2002"}
        /\ req'[q].pc = "done"
        /\ res'[q].status # 500
        /\ \E x \in linked :
              /\ x[1].key = req[q].key
              /\ x[3].senderId = req[q].userId
              /\ x[3].receiverId = req[q].receiverId
              /\ x[3].amount = req[q].amount)
       => /\ res'[q].status = 201
          /\ \E x \in linked :
                x[1].key = req[q].key /\ res'[q].data.id = x[2].id]_vars

\* C3: every successful response for a key carries the same transferId and
\* donationId; a repeated call, whose PIN verifies as it did the first time,
\* reaches the lookup, and a call whose key is recorded when it is looked up
\* answers with that record and changes no balance, no row and no sequence.
C3_ReplayUnchanged ==
  /\ [][\A p \in Procs :
          (/\ req[p].pc = "pin"
           /\ recorded(req[p].key)
           /\ req[p].pin = GoodPin
           /\ stepOf(p))
          => /\ req'[p] = [req[p] EXCEPT !.pc = "lookup"]
             /\ UNCHANGED <<store, toppedUp, donationSeq, transactionSeq,
                            scheduled>>]_vars
  /\ [](\A p, q \in Procs :
          (/\ res[p].status = 201
           /\ res[q].status = 201
           /\ res[p].data.idempotencyKey = res[q].data.idempotencyKey)
          => /\ res[p].data.id = res[q].data.id
             /\ res[p].data.donationId = res[q].data.donationId)
  /\ [][\A p \in Procs :
          (req[p].pc = "lookup" /\ recorded(req[p].key) /\ stepOf(p)) =>
             /\ req'[p].pc = "done"
             /\ res'[p].status = 201
             /\ res'[p].data.idempotencyKey = req[p].key
             /\ \E i \in idempotencyKey :
                   i.key = req[p].key /\ i.transactionId = res'[p].data.id
             /\ UNCHANGED <<store, toppedUp, donationSeq, transactionSeq,
                            scheduled>>]_vars

\* the first call committed and answered, a later call with the same key was
\* answered from the record (no second unit was ever opened)
C3_Witness ==
  \E p, q \in Procs :
    /\ p # q
    /\ res[p].status = 201
    /\ res[q].status = 201
    /\ res[p].data.id = res[q].data.id
    /\ transactionSeq = 1
    /\ donationSeq = 1

\* C4: every committed wallet balance is >= 0.
C4_NonNegativeBalance == \A u \in Users : wallet[u] >= 0

\* C5: the five mutations of a transfer are visible together or not at all:
\* the committed Donations, Transfer Records and Idempotency Records are
\* exactly the rows of complete units, and every balance is the top-ups plus
\* the credits minus the debits of exactly those units.
C5_AllOrNothing ==
  /\ {x[1] : x \in linked} = idempotencyKey
  /\ {x[2] : x \in linked} = transaction
  /\ {x[3] : x \in linked} = donation
  /\ Cardinality(linked) = Cardinality(idempotencyKey)
  /\ Cardinality(linked) = Cardinality(transaction)
  /\ Cardinality(linked) = Cardinality(donation)
  /\ \A u \in Users :
        wallet[u] = toppedUp[u]
                    + sumAmount({x[2] : x \in {y \in linked : y[3].receiverId = u}})
                    - sumAmount({x[2] : x \in {y \in linked : y[3].senderId = u}})

\* one unit failed on the unique index after its wallet updates and its
\* Donation insert, another one is committed
C5_Witness ==
  /\ \E p \in Procs : req[p].pc = "P2002"
  /\ donationSeq > Cardinality(donation)
  /\ donation # {}

\* C6: each balance is the wallet's top-ups plus the committed Donations it
\* received minus those it sent, and the total of all balances is the total
\* topped up.
C6_Conservation ==
  /\ \A u \in Users :
        wallet[u] = toppedUp[u]
                    + sumAmount({d \in donation : d.receiverId = u})
                    - sumAmount({d \in donation : d.senderId = u})
  /\ sumBalance(Users) = funds(Users)

\* a wallet was topped up, has sent and has received
C6_Witness ==
  \E u \in Users :
    /\ toppedUp[u] > 0
    /\ \E d \in donation : d.senderId = u
    /\ \E d \in donation : d.receiverId = u

\* C7: the step that answers 201 to the first execution of a key commits
\* exactly the debit, the credit, one Donation(sender, receiver, a), one
\* Transfer Record linked to it with type DONATION, status COMPLETED and the
\* key, and one Idempotency Record mapping the key to it; and a request is
\* rejected with a client error only if it is not valid.
C7_FirstExecution ==
  [][\A p \in Procs :
       /\ (/\ running(p)
           /\ req'[p].pc = "done"
           /\ res'[p].status = 201
           /\ ~recorded(req[p].key))
          => /\ wallet' = [wallet EXCEPT
                             ![req[p].userId] = @ - req[p].amount,
                             ![req[p].receiverId] = @ + req[p].amount]
             /\ \E d \in donation' \ donation, t \in transaction' \ transaction :
                   /\ donation' = donation \cup {d}
                   /\ d.senderId = req[p].userId
                   /\ d.receiverId = req[p].receiverId
                   /\ d.amount = req[p].amount
                   /\ \A e \in donation : e.id # d.id
                   /\ transaction' = transaction \cup {t}
                   /\ \A e \in transaction : e.id # t.id
                   /\ t.donationId = d.id
                   /\ t.amount = req[p].amount
                   /\ t.type = "DONATION"
                   /\ t.status = "COMPLETED"
                   /\ t.idempotencyKey = req[p].key
                   /\ idempotencyKey' = idempotencyKey \cup
                        {[key |-> req[p].key, transactionId |-> t.id]}
                   /\ res'[p].data.id = t.id
                   /\ res'[p].data.donationId = d.id
       /\ (/\ running(p)
           /\ req'[p].pc = "done"
           /\ res'[p].status \in {400, 403})
          => \/ ~verifyPassword(req[p].pin, transactionPin[req[p].userId])
             \/ req[p].userId = req[p].receiverId
             \/ req[p].receiverId \notin Users
             \/ wallet[req[p].userId] < req[p].amount]_vars

\* one request has been served, it was a first execution and it succeeded
C7_Witness ==
  /\ res[1].status = 201
  /\ \A p \in Procs \ {1} : req[p].pc = "idle"
  /\ Cardinality(donation) = 1
  /\ \E d \in donation : d.amount = MaxAmount /\ wallet[d.receiverId] = MaxAmount

\* C8: a request with an unused key, existing parties and an amount above the
\* sender's balance is answered InsufficientFunds, ends there, and changes no
\* balance and no row.
C8_InsufficientFunds ==
  [][\A p \in Procs :
       (/\ req[p].pc = "fetch"
        /\ req[p].receiverId \in Users
        /\ ~recorded(req[p].key)
        /\ wallet[req[p].userId] < req[p].amount
        /\ stepOf(p))
       => /\ req'[p].pc = "done"
          /\ res'[p] = [status |-> 400,
                        message |-> "Insufficient funds in wallet",
                        data |-> NoData]
          /\ UNCHANGED <<store, donationSeq, transactionSeq>>]_vars

\* a request was refused for insufficient funds by a sender who has money
C8_Witness ==
  \E p \in Procs :
    /\ res[p].status = 400
    /\ res[p].message = "Insufficient funds in wallet"
    /\ \E u \in Users : wallet[u] > 0
    /\ donation = {}

\* C9: Idempotency Records, Transfer Records and Donations correspond one to
\* one: every Idempotency Record references exactly one Transfer Record, which
\* carries its key; every Transfer Record references exactly one Donation, of
\* the same amount; every Donation has exactly one Transfer Record and every
\* Transfer Record exactly one Idempotency Record.
C9_OneToOne ==
  /\ \A i \in idempotencyKey :
        /\ Cardinality({t \in transaction : t.id = i.transactionId}) = 1
        /\ \A t \in transaction :
              t.id = i.transactionId => t.idempotencyKey = i.key
        /\ Cardinality({j \in idempotencyKey : j.key = i.key}) = 1
  /\ \A t \in transaction :
        /\ Cardinality({d \in donation : d.id = t.donationId}) = 1
        /\ \A d \in donation : d.id = t.donationId => d.amount = t.amount
        /\ Cardinality({i \in idempotencyKey : i.transactionId = t.id}) = 1
        /\ Cardinality({u \in transaction : u.id = t.id}) = 1
  /\ \A d \in donation :
        /\ Cardinality({t \in transaction : t.donationId = d.id}) = 1
        /\ Cardinality({e \in donation : e.id = d.id}) = 1

\* two units are committed
C9_Witness ==
  /\ Cardinality(idempotencyKey) = 2
  /\ Cardinality(transaction) = 2
  /\ Cardinality(donation) = 2

\* C10: a request whose key is already recorded is answered with the recorded
\* Transfer Record as a success, whatever its PIN, amount and receiver.
C10_ReplayWithoutValidation ==
  [][\A p \in Procs :
       (/\ req[p].pc \in {"pin", "lookup"}
        /\ recorded(req[p].key)
        /\ req'[p].pc = "done")
       => /\ res'[p].status = 201
          /\ res'[p].data.idempotencyKey = req[p].key]_vars

\* C11: a donation request whose sender is its receiver (with a key that is
\* not recorded and a positive amount) always ends with "Cannot donate to
\* yourself", whatever the balance, the PIN and the rest of the state, and
\* changes no balance and no row.
C11_SelfTransferRejected ==
  [][\A p \in Procs :
       (/\ req[p].pc \in {"pin", "lookup"}
        /\ req[p].userId = req[p].receiverId
        /\ ~recorded(req[p].key)
        /\ req'[p].pc = "done")
       => /\ res'[p].status = 400
          /\ res'[p].message = "Cannot donate to yourself"
          /\ UNCHANGED store]_vars

\* the failure the order of the contract names first for the request of p:
\* recorded key, amount, self-transfer, parties, PIN, balance
firstViolated(p) ==
  IF recorded(req[p].key) THEN "none"
  ELSE IF req[p].amount <= 0 THEN "Amount must be greater than zero."
  ELSE IF req[p].userId = req[p].receiverId THEN "Cannot donate to yourself"
  ELSE IF req[p].userId \notin user \/ req[p].receiverId \notin user
  THEN "sender or receiver does not exist"
  ELSE IF transactionPin[req[p].userId] = NoPin THEN "Transaction PIN not set."
  ELSE IF ~verifyPassword(req[p].pin, transactionPin[req[p].userId])
  THEN "Invalid transaction PIN."
  ELSE IF wallet[req[p].userId] < req[p].amount
  THEN "Insufficient funds in wallet"
  ELSE "none"

\* C12: a donation request that is rejected is rejected with the failure of the
\* first violated check in the order: key present, recorded key, amount,
\* sender # receiver, parties exist, PIN configured and valid, balance.
C12_ValidationOrder ==
  [][\A p \in Procs :
       (/\ req[p].pc \in {"pin", "lookup", "fetch"}
        /\ req'[p].pc = "done"
        /\ res'[p].status \in {400, 403})
       => res'[p].message = firstViolated(p)]_vars

\* C13: a donation request with an unused key, at its PIN verification, ends
\* with "Transaction PIN not set." when the sender has no TransactionPin row
\* and with "Invalid transaction PIN." when the pin does not verify against the
\* stored hash; in both cases no balance, row or sequence changes.
C13_PinRejections ==
  [][\A p \in Procs :
       (/\ req[p].pc = "pin"
        /\ ~recorded(req[p].key)
        /\ stepOf(p)
        /\ \/ transactionPin[req[p].userId] = NoPin
           \/ transactionPin[req[p].userId] # hashPassword(req[p].pin))
       => /\ req'[p].pc = "done"
          /\ res'[p].status = 403
          /\ res'[p].message =
               (IF transactionPin[req[p].userId] = NoPin
                THEN "Transaction PIN not set."
                ELSE "Invalid transaction PIN.")
          /\ UNCHANGED <<store, donationSeq, transactionSeq, toppedUp,
                         scheduled>>]_vars

\* one request was refused for a missing PIN, another for a wrong one
C13_Witness ==
  \E p, q \in Procs :
    /\ res[p] = json(403, "Transaction PIN not set.", NoData)
    /\ res[q] = json(403, "Invalid transaction PIN.", NoData)


\* C14: retrying with the same key is safe.  With callers that send a request
\* again after its unit was aborted, and with calls that carry the key of a
\* unit still in flight: at most one unit is ever committed per key; the step
\* that aborts a unit and starts the retry leaves every balance and row as it
\* was; no step of a call whose key is recorded changes a balance; and a retry
\* that finds the key recorded returns the recorded Transfer Record.
C14_RetrySafe ==
  /\ [](\A k \in Keys :
          /\ Cardinality({x \in linked : x[1].key = k}) <= 1
          /\ Cardinality(transactionsOf(k)) <= 1
          /\ Cardinality({i \in idempotencyKey : i.key = k}) <= 1)
  /\ [][\A p \in Procs :
          /\ req'[p].attempt > req[p].attempt => UNCHANGED store
          /\ (running(p) /\ recorded(req[p].key) /\ stepOf(p))
             => wallet' = wallet
          /\ (/\ req[p].attempt > 0
              /\ req[p].pc = "lookup"
              /\ recorded(req[p].key)
              /\ stepOf(p))
             => /\ req'[p].pc = "done"
                /\ res'[p] = successResponse(existingTransaction(req[p].key))
                /\ UNCHANGED <<store, toppedUp, scheduled>>]_vars

\* the unit of a call was aborted, the same key was committed by another call,
\* and the retry was answered with that record
C14_Witness ==
  \E p \in Procs :
    /\ req[p].pc = "done"
    /\ req[p].attempt > 0
    /\ res[p].status = 201
    /\ \E q \in Procs \ {p} :
         /\ req[q].attempt = 0
         /\ res[q].status = 201
         /\ res[q].data.id = res[p].data.id
         /\ Cardinality(donation) = 1


\* C15: committed Idempotency Records, Transfer Records and Donations are
\* permanent and immutable: every step of every operation keeps every committed
\* row as it is, so a key maps to the same transferId in every later state.
C15_RecordsPermanent ==
  [][/\ idempotencyKey \subseteq idempotencyKey'
     /\ transaction \subseteq transaction'
     /\ donation \subseteq donation'
     /\ \A i \in idempotencyKey : \A j \in idempotencyKey' :
           j.key = i.key => j.transactionId = i.transactionId
     /\ \A t \in transaction : \A v \in transaction' : v.id = t.id => v = t
     /\ \A d \in donation : \A e \in donation' : e.id = d.id => e = d]_vars

\* a key was recorded by a request, a duplicate hit the unique index and was
\* resolved to it, in a store that held records before
C15_Witness ==
  /\ \E i \in idempotencyKey : i.key \in PriorKeys
  /\ \E i \in idempotencyKey : i.key \in Keys
  /\ \E p \in Procs :
       /\ res[p].status = 201
       /\ res[p].message = "Donation successful"
       /\ "donation" \in DOMAIN res[p].data

\* C16: an existing wallet balance changes only in the step that commits a
\* transfer's unit (the sender's by -amount, the receiver's by +amount) and in
\* an accepted top-up (by its amount); registration adds a wallet with balance
\* 0 and changes no other; no step removes a wallet.
C16_BalanceWriters ==
  [][/\ DOMAIN wallet \subseteq DOMAIN wallet'
     /\ \A u \in DOMAIN wallet' \ DOMAIN wallet :
           /\ wallet'[u] = 0
           /\ \E p \in Procs : req[p].pc = "userCreate" /\ req[p].userId = u
     /\ \A u \in DOMAIN wallet :
           wallet'[u] # wallet[u] =>
             \/ /\ u \in DOMAIN toppedUp
                /\ toppedUp'[u] > toppedUp[u]
                /\ wallet'[u] - wallet[u] = toppedUp'[u] - toppedUp[u]
                /\ UNCHANGED donation
             \/ \E p \in Procs :
                  /\ req[p].pc = "commit"
                  /\ req'[p].pc = "done"
                  /\ res'[p].status = 201
                  /\ donation' # donation
                  /\ toppedUp' = toppedUp
                  /\ u \in {req[p].userId, req[p].receiverId}
                  /\ wallet'[u] - wallet[u] =
                       (IF u = req[p].userId THEN 0 - req[p].amount
                                             ELSE req[p].amount)]_vars

\* a user has registered, with a wallet at 0, and has been given to since
C16_Witness ==
  /\ GhostUser \in DOMAIN wallet
  /\ wallet[GhostUser] > 0
  /\ \E p \in Procs : res[p].message = "User registered successfully"


\* the donations a user made before the requests, and those made by them
priorOf(u) ==
  {d \in donation :
     /\ d.senderId = u
     /\ \E t \in transaction :
           t.donationId = d.id /\ t.idempotencyKey \in PriorKeys}
newOf(u) == {d \in donation : d.senderId = u} \ priorOf(u)
\* a step of the deferred check of u that has read the count
counted(u) ==
  /\ scheduled'[u] = scheduled[u] - 1
  /\ console'.countError = console.countError

\* C17: every successful transfer schedules one deferred check for its sender
\* and nothing else does; a check that reads the count dispatches one thank-you
\* notification if the number of Donations whose sender is that user is >= 2
\* and none otherwise; and a notification is dispatched by nothing else.
C17_DispatchIffTwo ==
  [][\A u \in Users :
       /\ counted(u) =>
            IF Cardinality({d \in donation : d.senderId = u}) >= 2
            THEN emails'[u] = emails[u] + 1 /\ mail'[u][1] = mail[u][1] + 1
            ELSE emails'[u] = emails[u] /\ mail'[u] = mail[u]
       /\ emails'[u] # emails[u] => counted(u)
       /\ scheduled'[u] > scheduled[u] =>
            /\ scheduled'[u] = scheduled[u] + 1
            /\ \E p \in Procs :
                  /\ req[p].pc = "commit"
                  /\ req[p].userId = u
                  /\ res'[p].status = 201
                  /\ donation' = donation \cup {newDonation(p)}]_vars

\* a user who gave once before has given again, the check has read the count
\* and the user has been thanked once
C17_Witness ==
  \E u \in Users :
    /\ emails[u] = 1
    /\ scheduled[u] = 0
    /\ Cardinality(priorOf(u)) = 1
    /\ Cardinality(newOf(u)) = 1
    /\ console.countError = 0

background ==
  \/ \E u \in Users : scheduled'[u] < scheduled[u]
  \/ mail' # mail
  \/ console' # console

C20_DonationCount ==
  /\ [][\A p \in Procs :
          (req[p].pc = "count" /\ stepOf(p)) =>
             /\ req'[p].pc = "done"
             /\ res'[p].status \in {200, 500}
             /\ res'[p].status = 200 =>
                  res'[p].data.count =
                    Cardinality({d \in donation : d.senderId = req[p].userId})
             /\ UNCHANGED <<store, user, transactionPin, donationSeq,
                            transactionSeq, toppedUp, scheduled, emails, mail,
                            console>>]_vars
  /\ [](\A u \in Users :
          Cardinality({d \in donation : d.senderId = u}) =
            Cardinality({k \in Keys \cup PriorKeys :
                           \E x \in linked :
                              x[1].key = k /\ x[3].senderId = u}))

\* the one who gave twice is told 2, the one who received them is told 0
C20_Witness ==
  \E p, q \in Procs :
    /\ res[p].message = "Donation count retrieved successfully"
    /\ res[q].message = "Donation count retrieved successfully"
    /\ res[p].status = 200
    /\ res[q].status = 200
    /\ res[p].data.count = 2
    /\ res[q].data.count = 0


\* the Donations of `userId` created in the period, both ends included
inPeriod(userId, start, end) ==
  {d \in donation : d.senderId = userId /\ d.id >= start /\ d.id <= end}

C22_Clamped ==
  [][\A p \in Procs :
       (/\ req[p].pc = "range"
        /\ stepOf(p)
        /\ req[p].startDate # BadDate) =>
          /\ res'[p].status = 200
          /\ res'[p].data.page >= 1
          /\ res'[p].data.limit >= 1
          /\ res'[p].data.limit <= MaxLimit
    ]_vars


\* C23: the fetch of one Donation answers 200 with the Donation, its
\* Transaction and the public fields of both parties when the caller is its
\* sender or its receiver; any other caller is answered 403 "Access denied to
\* this donation" with nothing of the Donation; an id no Donation has is
\* answered 404 "Donation not found" whoever the caller is; nothing is
\* changed.
C23_SingleFetch ==
  [][\A p \in Procs :
       (req[p].pc = "single" /\ stepOf(p)) =>
          LET id == req[p].donationId
              caller == req[p].userId
              rows == {d \in donation : d.id = id}
              answer == res'[p]
          IN  /\ req'[p].pc = "done"
              /\ rows = {} =>
                   answer = [status |-> 404, message |-> "Donation not found",
                             data |-> NoData]
              /\ \A d \in rows :
                   IF caller = d.senderId \/ caller = d.receiverId
                   THEN /\ answer.status = 200
                        /\ answer.data.id = id
                        /\ answer.data.senderId = d.senderId
                        /\ answer.data.receiverId = d.receiverId
                        /\ answer.data.amount = d.amount
                        /\ answer.data.sender.id = d.senderId
                        /\ answer.data.receiver.id = d.receiverId
                        /\ answer.data.transaction \in transaction
                        /\ answer.data.transaction.donationId = id
                   ELSE answer = [status |-> 403,
                                  message |-> "Access denied to this donation",
                                  data |-> NoData]
              /\ UNCHANGED <<store, user, transactionPin, donationSeq,
                             transactionSeq, toppedUp, scheduled, emails,
                             mail, console>>
    ]_vars

\* a user registered after the donation, party to none, has asked for it and
\* been refused
C23_Witness ==
  /\ GhostUser \in user
  /\ donation # {}
  /\ \E p \in Procs :
       /\ res[p].status = 403
       /\ res[p].message = "Access denied to this donation"


\* C24: every answer "Donation successful", whether of the execution that
\* committed the unit, of a replay or of the loser of a race, carries an
\* outcome with the same set of fields.
C24_SameShape ==
  \A p, q \in Procs :
    (/\ res[p].status = 201 /\ res[p].message = "Donation successful"
     /\ res[q].status = 201 /\ res[q].message = "Donation successful") =>
       DOMAIN res[p].data = DOMAIN res[q].data


\* the statements of createDonation after its checks: the unit of work and
\* the resolution of a unique conflict
afterChecks == {"debit", "credit", "donation", "transaction", "key", "commit",
                "P2002"}

\* C25: a donation request that fails after its checks (a timeout or a lock
\* wait that rolls the unit back, a unique conflict that cannot be resolved)
\* is answered with the one fixed body 500 "Internal: Unable to process
\* donation" without data; every 500 of a donation request is that body; and
\* the only messages of createDonation sent as they are, with 400, are the
\* three recognised ones.
C25_OpaqueFailure ==
  [][\A p \in Procs :
       (/\ req[p].pc \in afterChecks \cup {"pin", "lookup", "fetch"}
        /\ req'[p].pc = "done"
        /\ res'[p].status # 201) =>
          /\ req[p].pc \in afterChecks =>
               res'[p] = [status |-> 500,
                          message |-> "Internal: Unable to process donation",
                          data |-> NoData]
          /\ res'[p].status = 500 =>
               res'[p] = [status |-> 500,
                          message |-> "Internal: Unable to process donation",
                          data |-> NoData]
          /\ (req[p].pc \in {"lookup", "fetch"} /\ res'[p].status # 500) =>
               /\ res'[p].status = 400
               /\ res'[p].message \in {"sender or receiver does not exist",
                                       "Cannot donate to yourself",
                                       "Insufficient funds in wallet"}
               /\ res'[p].data = NoData
    ]_vars

\* one request was rolled back and answered with the fixed body, another was
\* refused for its balance and told so
C25_Witness ==
  \E p, q \in Procs :
    /\ res[p] = [status |-> 500,
                 message |-> "Internal: Unable to process donation",
                 data |-> NoData]
    /\ res[q].status = 400
    /\ res[q].message = "Insufficient funds in wallet"


\* C26: in every state the users with a Wallet row are exactly the registered
\* users (one row each: the rows are keyed by the unique userId) and each has
\* one PIN hash or none.  A user row and its wallet appear in one step of
\* register, the wallet at balance 0, and only there; a create for a user
\* that exists is refused and changes neither; a PIN, once set, is replaced
\* by create-pin and update-pin, never removed and never set for a user that
\* is not registered.
C26_OneWalletOnePin ==
  /\ [](/\ DOMAIN wallet = user
        /\ \A u \in user :
             transactionPin[u] \in {NoPin} \cup {hashPassword(pin) : pin \in Pins})
  /\ [][/\ \A p \in Procs :
             (req[p].pc = "userCreate" /\ stepOf(p)) =>
                IF req[p].userId \in user
                THEN /\ res'[p].status = 500
                     /\ UNCHANGED <<user, wallet>>
                ELSE /\ res'[p].status = 201
                     /\ user' = user \cup {req[p].userId}
                     /\ DOMAIN wallet' = DOMAIN wallet \cup {req[p].userId}
                     /\ wallet'[req[p].userId] = 0
                     /\ \A u \in DOMAIN wallet : wallet'[u] = wallet[u]
        /\ (user' # user \/ DOMAIN wallet' # DOMAIN wallet) =>
             \E p \in Procs : req[p].pc = "userCreate" /\ stepOf(p)
        /\ \A u \in ReceiverIds :
             transactionPin'[u] # transactionPin[u] =>
                /\ u \in user
                /\ transactionPin'[u] # NoPin
                /\ \E p \in Procs :
                     /\ req[p].pc \in {"pinUpsert", "pinUpdate"}
                     /\ req[p].userId = u
                     /\ stepOf(p)
       ]_vars

\* two registrations of the same new user raced: one created the user and
\* the wallet, the other failed on the unique email
C26_Witness ==
  /\ GhostUser \in user
  /\ GhostUser \in DOMAIN wallet
  /\ \E p, q \in Procs :
       /\ res[p].status = 201
       /\ res[p].message = "User registered successfully"
       /\ res[q].status = 500
       /\ res[q].message = "Internal: Error Occurred during registration"


RECURSIVE sumOver(_, _)
sumOver(f, S) ==
  IF S = {} THEN 0
  ELSE LET x == CHOOSE x \in S : TRUE IN f[x] + sumOver(f, S \ {x})

\* the tasks that have made k-1 failed attempts and are about to make the next
tasksAt(k) == sumOver([u \in Users |-> mail[u][k]], Users)
\* the attempts the tasks in progress may still make
attemptsLeft == 3 * tasksAt(1) + 2 * tasksAt(2) + tasksAt(3)

\* C27: every dispatched notification is a task in progress or one that has
\* ended exactly once (queued, skipped, failed before the loop, sent, or
\* given up); a task in progress has failed at most 2 attempts, one that gave
\* up exactly 3, one that was sent at most 2 and none after the success; each
\* step of a task uses up at least one of the attempts left to the tasks in
\* progress, so a task ends within 3 steps; and its steps change no request
\* and no response.
C27_BoundedDelivery ==
  /\ [](/\ sumOver(emails, Users) =
             tasksAt(1) + tasksAt(2) + tasksAt(3) + console.queued
               + console.skipped + console.error + console.sent
               + console.gaveUp
        /\ console.attemptFailed >= tasksAt(2) + 2 * tasksAt(3)
                                      + 3 * console.gaveUp
        /\ console.attemptFailed <= tasksAt(2) + 2 * tasksAt(3)
                                      + 3 * console.gaveUp + 2 * console.sent
        /\ console.attemptFailed + console.sent <= 3 * sumOver(emails, Users))
  /\ [][(mail' # mail /\ emails' = emails) =>
          /\ attemptsLeft' < attemptsLeft
          /\ attemptsLeft' >= 0
          /\ tasksAt(1)' + tasksAt(2)' + tasksAt(3)' <=
               tasksAt(1) + tasksAt(2) + tasksAt(3)
          /\ UNCHANGED <<req, res>>
       ]_vars

\* a notification was dispatched, failed three attempts and its task is over
C27_Witness ==
  /\ console.gaveUp = 1
  /\ console.attemptFailed = 3
  /\ console.sent = 0
  /\ sumOver(emails, Users) = 1
  /\ tasksAt(1) + tasksAt(2) + tasksAt(3) = 0


\* C28: a request for a wallet or donation route that has no Authorization
\* header, a header of another scheme or a Bearer token that does not verify
\* is answered 401 by the middleware; no handler is entered and nothing is
\* changed but the request and its response.
C28_Unauthorized ==
  [][\A p \in Procs :
       /\ (req[p].pc = "idle" /\ req'[p].pc = "auth") =>
             /\ req'[p].authorization \in {"", "Basic dXNlcjpwYXNz",
                                           "Bearer invalid"}
             /\ UNCHANGED <<store, user, transactionPin, donationSeq,
                            transactionSeq, toppedUp, res, scheduled, emails,
                            mail, console>>
       /\ (req[p].pc = "auth" /\ stepOf(p)) =>
             /\ req'[p].pc = "done"
             /\ res'[p].status = 401
             /\ res'[p].data = NoData
             /\ res'[p].message =
                  IF req[p].authorization = "Bearer invalid"
                  THEN "Unauthorized: Invalid or expired token"
                  ELSE "Missing or invalid authorization token"
             /\ UNCHANGED <<store, user, transactionPin, donationSeq,
                            transactionSeq, toppedUp, scheduled, emails,
                            mail, console>>
    ]_vars

\* one request without a Bearer header and one with a token that does not
\* verify have been refused
C28_Witness ==
  \E p, q \in Procs :
    /\ res[p] = [status |-> 401,
                 message |-> "Missing or invalid authorization token",
                 data |-> NoData]
    /\ res[q] = [status |-> 401,
                 message |-> "Unauthorized: Invalid or expired token",
                 data |-> NoData]

\* C29: a top-up whose configured secret is unset, or whose header is missing
\* or differs from it, is answered 403; one that passes with an amount of 0
\* or less is answered 400; both change no balance.  One that passes with a
\* positive amount is answered 200 or, if the store fails, 500: with 200 the
\* caller's balance has grown by exactly the amount and no other balance has
\* changed, with 500 none has.
C29_TopUp ==
  [][\A p \in Procs :
       (req[p].pc = "topUp" /\ stepOf(p)) =>
          LET secretOk == /\ req[p].secret = "topup-secret"
                          /\ req[p].incoming = "topup-secret"
          IN  /\ req'[p].pc = "done"
              /\ ~secretOk => res'[p].status = 403 /\ wallet' = wallet
              /\ (secretOk /\ req[p].amount <= 0) =>
                    res'[p].status = 400 /\ wallet' = wallet
              /\ (secretOk /\ req[p].amount > 0) =>
                    /\ res'[p].status \in {200, 500}
                    /\ res'[p].status = 500 => wallet' = wallet
                    /\ res'[p].status = 200 =>
                         /\ wallet'[req[p].userId] =
                              wallet[req[p].userId] + req[p].amount
                         /\ res'[p].data.balance = wallet'[req[p].userId]
                         /\ DOMAIN wallet' = DOMAIN wallet
                         /\ \A u \in DOMAIN wallet \ {req[p].userId} :
                              wallet'[u] = wallet[u]
              /\ UNCHANGED <<donation, transaction, idempotencyKey, user,
                             transactionPin>>
    ]_vars

\* one top-up was refused for its secret, another was applied
C29_Witness ==
  \E p, q \in Procs :
    /\ res[p].status = 403
    /\ res[p].message =
         "Top-up endpoint not allowed. Missing or invalid secret."
    /\ res[q].status = 200
    /\ res[q].message = "Wallet topped up successfully"
    /\ res[q].data.balance > 0


\* C30: the step in which a donation request is answered with anything but
\* 201 changes no balance and no Donation, Transaction or IdempotencyKey row
\* and schedules no notification; and no earlier step of it did: balances and
\* rows change only in a top-up and in the step that commits a unit and
\* answers 201.
C30_FailedFrame ==
  [][/\ \A p \in Procs :
          (/\ req[p].pc \in afterChecks \cup {"idle", "pin", "lookup", "fetch"}
           /\ req'[p].pc = "done"
           /\ res'[p].status # 201) =>
             UNCHANGED <<wallet, donation, transaction, idempotencyKey,
                         scheduled>>
     /\ <<wallet, donation, transaction, idempotencyKey>>' #
          <<wallet, donation, transaction, idempotencyKey>> =>
             \/ toppedUp' # toppedUp
             \/ \E p \in Procs :
                  /\ req[p].pc = "commit"
                  /\ req'[p].pc = "done"
                  /\ res'[p] = [status |-> 201,
                                message |-> "Donation successful",
                                data |-> res'[p].data]
    ]_vars

\* a unit that had taken a Donation id was rolled back and answered 500: no
\* row exists and every balance is what was topped up
C30_Witness ==
  /\ \E p \in Procs : res[p].status = 500
  /\ donationSeq > 0
  /\ donation = {} /\ transaction = {} /\ idempotencyKey = {}
  /\ \A u \in Users : wallet[u] = toppedUp[u]

\* C31: every committed Donation row has a positive amount, a sender that is
\* not its receiver, and a sender and a receiver that are both User rows.
C31_DonationWellFormed ==
  \A d \in donation :
    /\ d.amount > 0
    /\ d.senderId # d.receiverId
    /\ d.senderId \in user
    /\ d.receiverId \in user

\* one request committed a donation and another, to the sender itself, was
\* refused
C31_Witness ==
  \E p \in Procs, q \in Procs :
    /\ res[p].status = 201
    /\ res[p].message = "Donation successful"
    /\ \E d \in donation : d.id = res[p].data.donationId /\ d.id = donationSeq
    /\ res[q].status = 400
    /\ res[q].message = "Cannot donate to yourself"

\* the open transaction of p holds its sender's wallet row and waits for its
\* receiver's row, which the open transaction of q holds
waitsFor(p, q) ==
  /\ p # q
  /\ req[p].pc = "credit"
  /\ req[p].receiverId \in locksHeld(q)

\* C32: two concurrent transfers never reach a state in which each atomic
\* unit holds the lock on its sender's wallet and waits for the lock the
\* other one holds.
C32_NoLockCycle ==
  ~ \E p \in Procs, q \in Procs : waitsFor(p, q) /\ waitsFor(q, p)

\* C33: at most one notification check is scheduled, and so at most one
\* notification dispatched, per committed Transfer Record.  A check is
\* scheduled only by the step that commits a unit, one check for the one
\* Transaction row that step adds; a call answered by the idempotency guard or
\* by the race resolution schedules none, however often the key is retried;
\* and a dispatch consumes one scheduled check.
C33_OneCheckPerRecord ==
  /\ [](\A u \in Users :
          scheduled[u] + emails[u]
            <= Cardinality({d \in donation : d.senderId = u}))
  /\ [][/\ \A u \in Users :
            /\ scheduled'[u] > scheduled[u] =>
                 /\ scheduled'[u] = scheduled[u] + 1
                 /\ Cardinality(transaction') = Cardinality(transaction) + 1
                 /\ \E p \in Procs :
                      /\ req[p].pc = "commit"
                      /\ req[p].userId = u
                      /\ ~recorded(req[p].key)
                      /\ req'[p].pc = "done"
            /\ emails'[u] # emails[u] =>
                 /\ emails'[u] = emails[u] + 1
                 /\ scheduled'[u] = scheduled[u] - 1
        /\ \A p \in Procs :
            (/\ req[p].pc \in {"lookup", "P2002"}
             /\ req'[p].pc = "done") =>
               UNCHANGED <<scheduled, emails, transaction>>
        /\ transaction' # transaction =>
             \E u \in Users : scheduled'[u] = scheduled[u] + 1]_vars

\* a key was committed once and the retry of another call that carried it
\* was answered with the recorded Transfer Record: the one check that was
\* scheduled has run
C33_Witness ==
  \E p \in Procs, q \in Procs :
    /\ p # q
    /\ req[p].attempt > 0
    /\ res[p].status = 201
    /\ res[q].status = 201
    /\ res[q].data.id = res[p].data.id
    /\ Cardinality(transaction) = 1
    /\ \A u \in Users : scheduled[u] = 0 /\ emails[u] = 0

\* C34: once every deferred check of a sender has run, a sender with n
\* committed donations has caused max(0, n - 1) notification dispatches: the
\* first donation causes none.
C34_AllButFirst ==
  \A u \in Users :
    scheduled[u] = 0 =>
      LET n == Cardinality({d \in donation : d.senderId = u})
      IN  emails[u] = (IF n >= 1 THEN n - 1 ELSE 0)

\* C35: a donation request answered 201 returns a Transfer Record whose
\* Donation was sent or received by the caller.
C35_OwnRecordOnly ==
  [][\A p \in Procs :
       (/\ running(p)
        /\ req'[p].pc = "done"
        /\ res'[p].status = 201)
       => \E d \in donation' :
            /\ d.id = res'[p].data.donationId
            /\ req[p].userId \in {d.senderId, d.receiverId}]_vars

\* C36: create-pin never replaces an existing PIN: a create-pin call that
\* reaches its write when the user has a TransactionPin row, as the slower of
\* two concurrent calls does, is answered 409 and leaves the stored pinHash
\* as it is.
C36_CreateNeverReplaces ==
  [][\A p \in Procs :
       (/\ req[p].pc = "pinUpsert"
        /\ req'[p].pc = "done"
        /\ transactionPin[req[p].userId] # NoPin)
       => /\ res'[p].status = 409
          /\ transactionPin' = transactionPin]_vars

\* C37: update-pin changes the stored pinHash only when a PIN exists, the old
\* PIN supplied verifies against the stored hash read by the call and the new
\* PIN is six digits; then the stored hash becomes the hash of the new PIN and
\* the answer is 200.  In every other case the call is answered 400, 404 or
\* 401 and the stored hash is unchanged; and no other call but create-pin
\* writes a hash.
C37_UpdatePin ==
  [][/\ \A p \in Procs :
          /\ (/\ req[p].pc = "idle"
              /\ req'[p].pc = "done"
              /\ res'[p].message \in {"Old PIN and new PIN are required.",
                                      "New PIN must be a 6-digit number."})
             => res'[p].status = 400 /\ transactionPin' = transactionPin
          /\ req'[p].pc = "pinFind" =>
               /\ req'[p].newPin \in {GoodPin, BadPin}
               /\ req'[p].pin \in {GoodPin, BadPin}
          /\ (req[p].pc = "pinFind" /\ stepOf(p)) =>
               /\ transactionPin' = transactionPin
               /\ IF transactionPin[req[p].userId] = <<>>
                  THEN req'[p].pc = "done" /\ res'[p].status = 404
                  ELSE IF transactionPin[req[p].userId] # <<"bcrypt", req[p].pin>>
                  THEN req'[p].pc = "done" /\ res'[p].status = 401
                  ELSE req'[p].pc = "pinUpdate" /\ res'[p] = res[p]
          /\ (req[p].pc = "pinUpdate" /\ stepOf(p)) =>
               /\ req'[p].pc = "done"
               /\ res'[p].status = 200
               /\ transactionPin' =
                    [transactionPin EXCEPT ![req[p].userId] =
                       <<"bcrypt", req[p].newPin>>]
     /\ transactionPin' # transactionPin =>
          \E p \in Procs : /\ req[p].pc \in {"pinUpsert", "pinUpdate"}
                           /\ req'[p].pc = "done"]_vars

\* one call replaced the first user's PIN and another, which gave an old PIN
\* that does not verify, was answered 401
C37_Witness ==
  \E p \in Procs, q \in Procs :
    /\ res[p].status = 200
    /\ res[p].message = "Transaction PIN updated successfully"
    /\ res[q].status = 401
    /\ res[q].message = "Old PIN is incorrect."
    /\ transactionPin[1] = <<"bcrypt", BadPin>>

\* C38: a register call whose email is registered when it reaches its write,
\* as the slower of two concurrent calls with the same email is, is answered
\* 409 and creates no user and no wallet.
C38_RegisterConflict ==
  [][\A p \in Procs :
       (/\ req[p].pc = "userCreate"
        /\ req'[p].pc = "done"
        /\ req[p].userId \in user)
       => /\ res'[p].status = 409
          /\ UNCHANGED <<user, wallet>>]_vars


====
